---------------------------- MODULE Spec2Model ----------------------------
(***************************************************************************)
(* OrdinalSupConLoss.construct (code/loss/ordinal_losses.py) as a state    *)
(* machine.  One call of construct is followed from its entry to its       *)
(* return or to the exception that ends it.  The local names of the method *)
(* live in env, a function from the bound names to their values: a name    *)
(* the executed path never assigned is not in DOMAIN env, and reading it   *)
(* is Python's UnboundLocalError.                                          *)
(*                                                                         *)
(* Tensors.  features is [shape, flat] with flat the row-major elements,   *)
(* so that view only changes the shape.  Matrices are sequences of rows.   *)
(* Similarities are kept multiplied by the temperature (dividing a row by  *)
(* temperature > 0 and subtracting its maximum commute).  exp, log and the *)
(* sums after them are followed in the IEEE special-value domain:          *)
(* exp(x) is "pos" for every finite x, a sum of non-negative terms is      *)
(* "zero" or "pos", log("zero") is -inf, and a float is one of "fin",      *)
(* "pinf", "ninf", "nan".                                                  *)
(***************************************************************************)
EXTENDS Integers, Sequences, FiniteSets, TLC

VARIABLES self, args, env, pc, raised, ops

vars == <<self, args, env, pc, raised, ops>>

(***************************************************************************)
(* Bounds of the enumerated calls.                                         *)
(***************************************************************************)
MaxBatch == 2
MaxViews == 3
MaxDim == 1
MaxLabel == 2

(***************************************************************************)
(* Optional arguments: None, or a (non-empty) tensor.                      *)
(***************************************************************************)
None == << >>
IsNone(o) == o = None

(***************************************************************************)
(* Matrix helpers (the array runtime's primitives).                        *)
(***************************************************************************)
Rows(m) == Len(m)
Cols(m) == Len(m[1])
Shape2(m) == <<Rows(m), Cols(m)>>

RECURSIVE SeqSum(_)
SeqSum(s) == IF s = << >> THEN 0 ELSE Head(s) + SeqSum(Tail(s))

RECURSIVE SeqProd(_)
SeqProd(s) == IF s = << >> THEN 1 ELSE Head(s) * SeqProd(Tail(s))

RECURSIVE SeqMax(_)
SeqMax(s) ==
    IF Len(s) = 1 THEN Head(s)
    ELSE LET m == SeqMax(Tail(s)) IN IF Head(s) >= m THEN Head(s) ELSE m

Abs(x) == IF x < 0 THEN -x ELSE x

\* O.eye(n, m)
Eye(n, m) == [i \in 1..n |-> [j \in 1..m |-> IF i = j THEN 1 ELSE 0]]

\* Tensor.tile((a, c)) of a 2-D tensor: a copies down, c copies across
Tile(m, a, c) ==
    [i \in 1..(a * Rows(m)) |->
        [j \in 1..(c * Cols(m)) |->
            m[((i - 1) % Rows(m)) + 1][((j - 1) % Cols(m)) + 1]]]

\* elementwise product of two matrices of the same shape
MulElem(a, b) == [i \in 1..Rows(a) |-> [j \in 1..Cols(a) |-> a[i][j] * b[i][j]]]

\* NumPy-style broadcasting of two 2-D shapes
BroadcastOk(s, t) ==
    \A d \in 1..2 : s[d] = t[d] \/ s[d] = 1 \/ t[d] = 1

BIdx(n, i) == IF n = 1 THEN 1 ELSE i

Max2(a, b) == IF a >= b THEN a ELSE b

Dot(x, y) == SeqSum([d \in 1..Len(x) |-> x[d] * y[d]])

(***************************************************************************)
(* The messages of the exceptions that can end a call.                     *)
(***************************************************************************)
NoError == ""
ErrRank == "ValueError: features needs to be [bsz, n_views, ...],at least 3 dimensions are required"
ErrBoth == "ValueError: Cannot define both labels and mask"
ErrNumLabels == "ValueError: Num of labels does not match num of features"
ErrMode == "ValueError: Unknown mode"
ErrBroadcast == "ValueError: operands could not be broadcast together"
ErrUnbound == "UnboundLocalError: local variable weights referenced before assignment"
ErrMatMul == "ValueError: MatMul: the input dimensions must be equal"
ErrView == "ValueError: view: shape is not compatible with the number of elements"

StructuralErrors == {ErrRank, ErrBoth, ErrNumLabels, ErrMode}

(***************************************************************************)
(* Local names.                                                            *)
(***************************************************************************)
Bound(e, name) == name \in DOMAIN e
Bind(e, name, value) == (name :> value) @@ e


(***************************************************************************)
(* The calls that are enumerated: the arguments of construct and the       *)
(* contrast_mode the object was built with.                                *)
(***************************************************************************)
FeatureShapes ==
    {<<b, v>> : b \in 1..MaxBatch, v \in 1..MaxViews}
    \cup {<<b, v, d>> : b \in 1..MaxBatch, v \in 1..MaxViews, d \in 1..MaxDim}
    \cup {<<b, v, d, e>> : b \in 1..MaxBatch, v \in 1..MaxViews,
                           d \in 1..MaxDim, e \in 1..MaxDim}

FeaturePatterns == {"arange", "ones"}

\* a features tensor of the given shape: its elements in row-major order
Tensor(shape, pattern) ==
    [shape |-> shape,
     flat |-> [i \in 1..SeqProd(shape) |-> IF pattern = "arange" THEN i ELSE 1]]

LabelVectors == UNION {[1..n -> 0..MaxLabel] : n \in 1..MaxBatch}

MaskPatterns == {"ones", "eye"}

\* a caller's mask: a boolean matrix
MaskTensor(r, c, pattern) ==
    [i \in 1..r |-> [j \in 1..c |-> pattern = "ones" \/ i = j]]

Masks == {MaskTensor(r, c, p) : r \in 1..MaxBatch, c \in 1..MaxBatch, p \in MaskPatterns}

Modes == {"one", "all", "hard"}

\* the concrete scenario of the documentation: batch_size=4, n_views=2,
\* embedding_dim=3, labels=[0,0,1,1], contrast_mode="all"
ScenarioShape == <<4, 2, 3>>
ScenarioLabels == <<0, 0, 1, 1>>

(***************************************************************************)
(* The steps of construct, as operators on the values they read.           *)
(***************************************************************************)
\* the rank test off by one
TooFewDimsOffByOne(features) == Len(features.shape) < 2

\* line 35: len(features.shape) < 3
TooFewDims(features) == Len(features.shape) < 3

\* lines 38-39: features.view(shape[0], shape[1], -1)
View3(features) ==
    IF Len(features.shape) > 3
    THEN [shape |-> <<features.shape[1], features.shape[2],
                      SeqProd(SubSeq(features.shape, 3, Len(features.shape)))>>,
          flat |-> features.flat]
    ELSE features

\* the conflict test left out
BothGivenUnchecked(labels, mask) == FALSE

\* line 42: labels is not None and mask is not None
BothGiven(labels, mask) == ~IsNone(labels) /\ ~IsNone(mask)

\* line 47: labels.view(-1, 1), a column
ViewColumn(labels) == [i \in 1..Len(labels) |-> <<labels[i]>>]

\* line 48: labels.shape[0] != batch_size
NumLabelsMismatch(labels, batch_size) == Rows(labels) # batch_size

\* Tensor.float() of a boolean tensor
Float(m) == [i \in 1..Rows(m) |-> [j \in 1..Cols(m) |-> IF m[i][j] THEN 1 ELSE 0]]

\* line 50: O.equal(labels, labels.T), labels a column: broadcast to [n, n]
Equal(labels) ==
    [i \in 1..Rows(labels) |-> [j \in 1..Rows(labels) |-> labels[i][1] = labels[j][1]]]

\* the comparison inverted: O.ne for O.equal
LabelMaskInverted(labels) ==
    [i \in 1..Rows(labels) |->
        [j \in 1..Rows(labels) |-> IF labels[i][1] # labels[j][1] THEN 1 ELSE 0]]

\* line 50: O.equal(labels, labels.T).float()
LabelMask(labels) == Float(Equal(labels))

\* the tile left out: labels for labels_r
OrdinalWeightsUntiled(labels) ==
    [i \in 1..Rows(labels) |->
        [j \in 1..Rows(labels) |-> Abs(labels[i][1] - labels[j][1])]]

\* lines 51-52: labels_r = labels.tile((2,1)); O.abs(labels_r - labels_r.T).float()
OrdinalWeights(labels) ==
    LET labels_r == Tile(labels, 2, 1)
    IN  [i \in 1..Rows(labels_r) |->
            [j \in 1..Rows(labels_r) |-> Abs(labels_r[i][1] - labels_r[j][1])]]

\* the mask-only branch also binding all-one weights for two views
MaskBranchWithWeights(e) ==
    Bind(Bind(e, "mask", Float(e.mask)),
         "weights", [i \in 1..(2 * e.batch_size) |-> [j \in 1..(2 * e.batch_size) |-> 1]])

\* lines 53-54: the mask-only branch binds mask and nothing else
MaskBranch(e) == Bind(e, "mask", Float(e.mask))

\* line 57: O.unbind(features, dim=1): one [bsz, dim] matrix per view
Unbind(features) ==
    LET B == features.shape[1]
        V == features.shape[2]
        D == features.shape[3]
    IN  [v \in 1..V |->
            [b \in 1..B |->
                [d \in 1..D |-> features.flat[((b - 1) * V + (v - 1)) * D + d]]]]

\* the views interleaved: sample-major for view-major
CatInterleaved(views) ==
    [i \in 1..(Len(views) * Rows(views[1])) |->
        views[((i - 1) % Len(views)) + 1][((i - 1) \div Len(views)) + 1]]

\* line 57: O.cat(views, axis=0)
Cat(views) ==
    LET n == Rows(views[1])
    IN  [i \in 1..(Len(views) * n) |-> views[((i - 1) \div n) + 1][((i - 1) % n) + 1]]

ContrastFeature(features) == Cat(Unbind(features))

\* line 59: features[:, 0]
FirstView(features) == Unbind(features)[1]

\* lines 68-70: O.matmul(anchor_feature, contrast_feature.T), times temperature
AnchorDotContrast(anchor_feature, contrast_feature) ==
    [r \in 1..Rows(anchor_feature) |->
        [k \in 1..Rows(contrast_feature) |->
            Dot(anchor_feature[r], contrast_feature[k])]]

\* lines 72-73: anchor_dot_contrast - max over axis 1
Logits(adc) == [r \in 1..Rows(adc) |-> [k \in 1..Cols(adc) |-> adc[r][k] - SeqMax(adc[r])]]

\* the mask tiled down only
TileMaskRowsOnly(mask, anchor_count, contrast_count) == Tile(mask, anchor_count, 1)

\* line 76: mask.tile((anchor_count, contrast_count))
TileMask(mask, anchor_count, contrast_count) == Tile(mask, anchor_count, contrast_count)

\* line 79: O.eye(mask.shape[0], mask.shape[1]) * (-1) + 1
LogitsMask(mask) ==
    LET eye == Eye(Rows(mask), Cols(mask))
    IN  [i \in 1..Rows(mask) |-> [j \in 1..Cols(mask) |-> eye[i][j] * (-1) + 1]]

\* line 83: O.exp(logits) * logits_mask, broadcast
ExpLogits(logits, logits_mask) ==
    [i \in 1..Max2(Rows(logits), Rows(logits_mask)) |->
        [j \in 1..Max2(Cols(logits), Cols(logits_mask)) |->
            IF logits_mask[BIdx(Rows(logits_mask), i)][BIdx(Cols(logits_mask), j)] # 0
            THEN "pos" ELSE "zero"]]

\* line 84: O.matmul(exp_logits, weights), weights >= 0
ExpLogitsSum(exp_logits, weights) ==
    [r \in 1..Rows(exp_logits) |->
        [c \in 1..Cols(weights) |->
            IF \E k \in 1..Rows(weights) : exp_logits[r][k] = "pos" /\ weights[k][c] > 0
            THEN "pos" ELSE "zero"]]

\* line 85: logits - O.log(exp_logits_sum), broadcast; logits are finite
LogProb(logits, exp_logits_sum) ==
    [r \in 1..Max2(Rows(logits), Rows(exp_logits_sum)) |->
        [c \in 1..Max2(Cols(logits), Cols(exp_logits_sum)) |->
            IF exp_logits_sum[BIdx(Rows(exp_logits_sum), r)][BIdx(Cols(exp_logits_sum), c)] = "zero"
            THEN "pinf" ELSE "fin"]]

\* a float times a mask entry
MulKind(m, k) ==
    IF m # 0 THEN k
    ELSE IF k = "fin" THEN "fin" ELSE "nan"

\* the sum of floats
SumKind(ks) ==
    IF "nan" \in ks \/ ("pinf" \in ks /\ "ninf" \in ks) THEN "nan"
    ELSE IF "pinf" \in ks THEN "pinf"
    ELSE IF "ninf" \in ks THEN "ninf"
    ELSE "fin"

Range(f) == {f[x] : x \in DOMAIN f}

\* line 88: mask.sum(1)
PositiveCount(mask) == [r \in 1..Rows(mask) |-> SeqSum(mask[r])]

\* line 88: (mask * log_prob).sum(1) / mask.sum(1), broadcast; mask entries
\* are >= 0, so a row without positives is 0/0 or nan/0
MeanLogProbPos(mask, log_prob) ==
    [r \in 1..Max2(Rows(mask), Rows(log_prob)) |->
        IF PositiveCount(mask)[BIdx(Rows(mask), r)] = 0 THEN "nan"
        ELSE SumKind({MulKind(mask[BIdx(Rows(mask), r)][BIdx(Cols(mask), c)],
                              log_prob[BIdx(Rows(log_prob), r)][BIdx(Cols(log_prob), c)]) :
                      c \in 1..Max2(Cols(mask), Cols(log_prob))})]

\* line 91: -(temperature / base_temperature) * x, both temperatures > 0
NegScale(k) == IF k = "pinf" THEN "ninf" ELSE IF k = "ninf" THEN "pinf" ELSE k

\* line 92: loss.view(anchor_count, batch_size).mean()
MeanKind(rows) == SumKind(Range(rows))


(***************************************************************************)
(* The state before the first statement of construct: the parameters are   *)
(* the only bound names.                                                   *)
(***************************************************************************)
Call(features, labels, mask, mode) ==
    /\ self = [contrast_mode |-> mode]
    /\ args = [features |-> features, labels |-> labels, mask |-> mask]
    /\ env = [features |-> features, labels |-> labels, mask |-> mask]
    /\ pc = "start"
    /\ raised = NoError
    /\ ops = << >>

Init ==
    \/ \E shape \in FeatureShapes, pattern \in FeaturePatterns,
          labels \in LabelVectors \cup {None}, mask \in Masks \cup {None},
          mode \in Modes :
            Call(Tensor(shape, pattern), labels, mask, mode)
    \/ \E pattern \in FeaturePatterns :
            Call(Tensor(ScenarioShape, pattern), ScenarioLabels, None, "all")

Raise(msg) == pc' = "raised" /\ raised' = msg

\* lines 35-41
CheckDims ==
    /\ pc = "start"
    /\ IF TooFewDims(env.features)
       THEN Raise(ErrRank) /\ UNCHANGED <<env, ops>>
       ELSE /\ env' = Bind(Bind(env, "features", View3(env.features)),
                           "batch_size", env.features.shape[1])
            /\ ops' = IF Len(env.features.shape) > 3
                      THEN Append(ops, "39:features.view") ELSE ops
            /\ pc' = "dims"
            /\ UNCHANGED raised
    /\ UNCHANGED <<self, args>>

\* lines 42-54
BuildMask ==
    /\ pc = "dims"
    /\ IF BothGiven(env.labels, env.mask)
       THEN Raise(ErrBoth) /\ UNCHANGED <<env, ops>>
       ELSE IF IsNone(env.labels) /\ IsNone(env.mask)
       THEN /\ env' = Bind(env, "mask", Eye(env.batch_size, env.batch_size))
            /\ ops' = Append(ops, "45:O.eye")
            /\ pc' = "masked"
            /\ UNCHANGED raised
       ELSE IF ~IsNone(env.labels)
       THEN LET labels == ViewColumn(env.labels)
            IN  IF NumLabelsMismatch(labels, env.batch_size)
                THEN /\ Raise(ErrNumLabels)
                     /\ env' = Bind(env, "labels", labels)
                     /\ ops' = Append(ops, "47:labels.view")
                ELSE /\ env' = Bind(Bind(Bind(Bind(env, "labels", labels),
                                    "mask", LabelMask(labels)),
                                    "labels_r", Tile(labels, 2, 1)),
                                    "weights", OrdinalWeights(labels))
                     /\ ops' = ops \o <<"47:labels.view", "50:O.equal",
                                        "51:labels.tile", "52:O.abs">>
                     /\ pc' = "masked"
                     /\ UNCHANGED raised
       ELSE /\ env' = MaskBranch(env)
            /\ ops' = Append(ops, "54:mask.float")
            /\ pc' = "masked"
            /\ UNCHANGED raised
    /\ UNCHANGED <<self, args>>

\* lines 56-65
Project ==
    /\ pc = "masked"
    /\ LET contrast_feature == ContrastFeature(env.features)
           e == Bind(Bind(env, "contrast_count", env.features.shape[2]),
                     "contrast_feature", contrast_feature)
           o == ops \o <<"57:O.unbind", "57:O.cat">>
       IN  IF self.contrast_mode = "one"
           THEN /\ env' = Bind(Bind(e, "anchor_feature", FirstView(env.features)),
                               "anchor_count", 1)
                /\ ops' = Append(o, "59:features[:, 0]")
                /\ pc' = "projected"
                /\ UNCHANGED raised
           ELSE IF self.contrast_mode = "all"
           THEN /\ env' = Bind(Bind(e, "anchor_feature", contrast_feature),
                               "anchor_count", e.contrast_count)
                /\ ops' = o
                /\ pc' = "projected"
                /\ UNCHANGED raised
           ELSE Raise(ErrMode) /\ env' = e /\ ops' = o
    /\ UNCHANGED <<self, args>>

\* lines 67-73
Score ==
    /\ pc = "projected"
    /\ LET adc == AnchorDotContrast(env.anchor_feature, env.contrast_feature)
       IN  env' = Bind(Bind(env, "anchor_dot_contrast", adc), "logits", Logits(adc))
    /\ ops' = ops \o <<"69:O.matmul", "68:O.div", "72:O.max", "73:sub">>
    /\ pc' = "scored"
    /\ UNCHANGED <<self, args, raised>>

\* line 76
TileStep ==
    /\ pc = "scored"
    /\ env' = Bind(env, "mask", TileMask(env.mask, env.anchor_count, env.contrast_count))
    /\ ops' = Append(ops, "76:mask.tile")
    /\ pc' = "tiled"
    /\ UNCHANGED <<self, args, raised>>

\* lines 79-80
ExcludeSelf ==
    /\ pc = "tiled"
    /\ LET logits_mask == LogitsMask(env.mask)
       IN  env' = Bind(Bind(env, "logits_mask", logits_mask),
                       "mask", MulElem(env.mask, logits_mask))
    /\ ops' = ops \o <<"79:O.eye", "80:mul">>
    /\ pc' = "excluded"
    /\ UNCHANGED <<self, args, raised>>

\* lines 83-85
LogProbStep ==
    /\ pc = "excluded"
    /\ IF ~BroadcastOk(Shape2(env.logits), Shape2(env.logits_mask))
       THEN Raise(ErrBroadcast) /\ ops' = Append(ops, "83:O.exp") /\ UNCHANGED env
       ELSE LET exp_logits == ExpLogits(env.logits, env.logits_mask)
                e1 == Bind(env, "exp_logits", exp_logits)
                o1 == ops \o <<"83:O.exp", "83:mul">>
            IN  IF ~Bound(env, "weights")
                THEN Raise(ErrUnbound) /\ env' = e1 /\ ops' = o1
                ELSE IF Cols(exp_logits) # Rows(env.weights)
                THEN Raise(ErrMatMul) /\ env' = e1 /\ ops' = o1
                ELSE LET sum == ExpLogitsSum(exp_logits, env.weights)
                         e2 == Bind(e1, "exp_logits_sum", sum)
                         o2 == o1 \o <<"84:O.matmul", "85:O.log">>
                     IN  IF ~BroadcastOk(Shape2(env.logits), Shape2(sum))
                         THEN Raise(ErrBroadcast) /\ env' = e2 /\ ops' = o2
                         ELSE /\ env' = Bind(e2, "log_prob", LogProb(env.logits, sum))
                              /\ ops' = Append(o2, "85:sub")
                              /\ pc' = "logprob"
                              /\ UNCHANGED raised
    /\ UNCHANGED <<self, args>>

\* line 88
MeanStep ==
    /\ pc = "logprob"
    /\ IF ~BroadcastOk(Shape2(env.mask), Shape2(env.log_prob))
       THEN Raise(ErrBroadcast) /\ UNCHANGED <<env, ops>>
       ELSE /\ env' = Bind(env, "mean_log_prob_pos", MeanLogProbPos(env.mask, env.log_prob))
            /\ ops' = ops \o <<"88:mul", "88:sum", "88:div">>
            /\ pc' = "meaned"
            /\ UNCHANGED raised
    /\ UNCHANGED <<self, args>>

\* lines 91-94
LossStep ==
    /\ pc = "meaned"
    /\ LET rows == [r \in 1..Len(env.mean_log_prob_pos) |->
                        NegScale(env.mean_log_prob_pos[r])]
       IN  IF Len(rows) # env.anchor_count * env.batch_size
           THEN Raise(ErrView) /\ env' = Bind(env, "loss", rows)
                /\ ops' = Append(ops, "91:mul")
           ELSE /\ env' = Bind(env, "loss", MeanKind(rows))
                /\ ops' = ops \o <<"91:mul", "92:loss.view", "92:mean">>
                /\ pc' = "returned"
                /\ UNCHANGED raised
    /\ UNCHANGED <<self, args>>

Next ==
    \/ CheckDims
    \/ BuildMask
    \/ Project
    \/ Score
    \/ TileStep
    \/ ExcludeSelf
    \/ LogProbStep
    \/ MeanStep
    \/ LossStep

Spec == Init /\ [][Next]_vars



(***************************************************************************)
(* What the claims speak of.                                               *)
(***************************************************************************)
BatchSize == args.features.shape[1]
NViews == args.features.shape[2]
RankAtLeast3 == Len(args.features.shape) >= 3
ValidMode == self.contrast_mode \in {"one", "all"}
LabelsGiven == ~IsNone(args.labels)
MaskGiven == ~IsNone(args.mask)
Ran(op) == \E i \in 1..Len(ops) : ops[i] = op

\* the tensor computations of mask, weight and pool construction
MaskOps == {"45:O.eye", "50:O.equal"}
WeightOps == {"51:labels.tile", "52:O.abs"}
PoolOps == {"57:O.cat"}
ReshapeOps == {"47:labels.view"}
ScoreOps == {"69:O.matmul", "68:O.div", "72:O.max", "73:sub"}
NoneRan(S) == \A i \in 1..Len(ops) : ops[i] \notin S

\* the label of pool index i (1-based) of a call with labels
PoolLabel(i) == args.labels[((i - 1) % BatchSize) + 1]

\* features[b][v] of the arguments, trailing dimensions flattened
FeatureAt(b, v) ==
    LET D == SeqProd(SubSeq(args.features.shape, 3, Len(args.features.shape)))
    IN  [d \in 1..D |-> args.features.flat[((b - 1) * NViews + (v - 1)) * D + d]]

Floats == {"fin", "pinf", "ninf", "nan"}

\* the call has neither returned nor raised
Running == pc \notin {"returned", "raised"}

\* a call that has neither returned nor raised takes a further step: every
\* call ends in a return or in an exception
Progress == Running => ENABLED Next

(***************************************************************************)
(* C1.  A call with features of rank >= 3 and both labels and mask given   *)
(* never gets past the argument test: it stops only in the "Cannot define  *)
(* both" error, whatever the label count, the mask shape and the mode, and *)
(* by then no mask, weight or pool has been built.                         *)
(***************************************************************************)
C1_BothRaises ==
    (RankAtLeast3 /\ LabelsGiven /\ MaskGiven) =>
        /\ pc \in {"start", "dims", "raised"}
        /\ pc = "raised" =>
            /\ raised = ErrBoth
            /\ NoneRan(MaskOps \cup WeightOps \cup PoolOps \cup ReshapeOps \cup {"54:mask.float"})
            /\ env.mask = args.mask /\ env.labels = args.labels
            /\ ~Bound(env, "weights") /\ ~Bound(env, "contrast_feature")

C1_Witness ==
    /\ pc = "raised" /\ raised = ErrBoth
    /\ Len(args.labels) # BatchSize
    /\ Shape2(args.mask) # <<BatchSize, BatchSize>>
    /\ ~ValidMode

(***************************************************************************)
(* C2.  A call with features of rank < 3 stops only in the rank error, and *)
(* before anything else has run, whatever labels, mask and mode are.       *)
(***************************************************************************)
C2_RankFirst ==
    ~RankAtLeast3 =>
        /\ pc \in {"start", "raised"}
        /\ pc = "raised" => (raised = ErrRank /\ ops = << >> /\ env = args)

C2_Witness ==
    /\ pc = "raised" /\ raised = ErrRank
    /\ LabelsGiven /\ MaskGiven /\ ~ValidMode
    /\ Len(args.labels) # BatchSize

(***************************************************************************)
(* C3.  Every structural error (rank, label count, labels and mask both    *)
(* given, unknown mode) is raised before any mask construction, weight     *)
(* construction, reshape of labels or pool concatenation has run.          *)
(***************************************************************************)
C3_StructuralErrorsFirst ==
    (pc = "raised" /\ raised \in StructuralErrors) =>
        NoneRan(MaskOps \cup WeightOps \cup ReshapeOps \cup PoolOps)

(***************************************************************************)
(* C4.  A call with neither labels nor mask (rank >= 3, valid mode) builds *)
(* the identity mask and returns a scalar loss.                            *)
(***************************************************************************)
C4_UnsupervisedReturns ==
    (RankAtLeast3 /\ ~LabelsGiven /\ ~MaskGiven /\ ValidMode) =>
        /\ pc # "raised"
        /\ pc = "masked" => env.mask = Eye(BatchSize, BatchSize)
        /\ pc = "returned" => env.loss \in Floats

(***************************************************************************)
(* C5.  A call with a mask and no labels (rank >= 3, valid mode) never     *)
(* returns: the mask is only cast, no weight is bound, projection and      *)
(* scoring run, and the call stops at the weighted denominator because     *)
(* weights is unbound.  As amended: for a mask of shape                    *)
(* [batch_size, batch_size].                                               *)
(***************************************************************************)
\* C5: what holds of a mask-only call
C5_MaskOnlyBody ==
    /\ pc # "returned"
    /\ ~Bound(env, "weights")
    /\ NoneRan(WeightOps)
    /\ pc \in {"masked", "projected", "scored"} => env.mask = Float(args.mask)
    /\ pc \notin {"start", "dims"} => Ran("54:mask.float")
    /\ pc = "raised" =>
        /\ raised = ErrUnbound
        /\ \A op \in PoolOps \cup ScoreOps : Ran(op)
        /\ Ran("83:O.exp") /\ ~Ran("84:O.matmul")

\* C5 as stated: for a mask of any shape
C5_MaskOnlyAnyShape ==
    (RankAtLeast3 /\ MaskGiven /\ ~LabelsGiven /\ ValidMode) => C5_MaskOnlyBody

\* C5 as amended: for a mask of shape [batch_size, batch_size] the call never
\* returns and stops only in the read of the unbound weights
C5_MaskOnly ==
    (RankAtLeast3 /\ MaskGiven /\ ~LabelsGiven /\ ValidMode
        /\ Shape2(args.mask) = <<BatchSize, BatchSize>>) => C5_MaskOnlyBody

C5_Witness ==
    /\ RankAtLeast3 /\ MaskGiven /\ ~LabelsGiven /\ ValidMode
    /\ Shape2(args.mask) = <<BatchSize, BatchSize>>
    /\ BatchSize > 1
    /\ pc = "raised" /\ raised = ErrUnbound

(***************************************************************************)
(* C6.  In the scenario batch_size=4, n_views=2, labels=[0,0,1,1], mode    *)
(* "all", the tiled mask (8 x 8, diagonal not yet zeroed) has 6 positives  *)
(* in every row.  As amended: 4 positives in every row.                    *)
(***************************************************************************)
Scenario ==
    /\ args.features.shape = ScenarioShape
    /\ args.labels = ScenarioLabels
    /\ ~MaskGiven
    /\ self.contrast_mode = "all"

\* C6 as stated: 6 positives in every row of the tiled mask
C6_SixPerRow ==
    (Scenario /\ pc = "tiled") =>
        /\ Shape2(env.mask) = <<8, 8>>
        /\ \A r \in 1..8 : SeqSum(env.mask[r]) = 6

\* C6 as amended: 4 positives in every row of the tiled mask, those of the
\* pool entries with the row's label
C6_FourPerRow ==
    (Scenario /\ pc = "tiled") =>
        /\ Shape2(env.mask) = <<8, 8>>
        /\ \A r \in 1..8 : SeqSum(env.mask[r]) = 4
        /\ \A r, c \in 1..8 : env.mask[r][c] = IF PoolLabel(r) = PoolLabel(c) THEN 1 ELSE 0

C6_Witness == Scenario /\ pc = "tiled" /\ ~Ran("79:O.eye")

(***************************************************************************)
(* C7.  A valid call (rank >= 3, two views, batch_size labels, valid mode) *)
(* returns a finite scalar, the weighted denominator of every positive     *)
(* pair being strictly positive, also when all labels are equal.           *)
(***************************************************************************)
C7_FiniteLoss ==
    (RankAtLeast3 /\ NViews = 2 /\ LabelsGiven /\ ~MaskGiven /\ ValidMode
        /\ Len(args.labels) = BatchSize) =>
        /\ pc # "raised"
        /\ pc \in {"logprob", "meaned", "returned"} =>
            \A r \in 1..Rows(env.mask) : \A c \in 1..Cols(env.mask) :
                env.mask[r][c] = 1 => env.exp_logits_sum[r][c] = "pos"
        /\ pc = "returned" => env.loss = "fin"

(***************************************************************************)
(* C8.  With labels and two views the pool holds features[b][v] at index   *)
(* v*batch_size+b (0-based), the tiled and self-excluded mask has          *)
(* batch_size rows in mode "one" and 2*batch_size rows in mode "all" and   *)
(* 2*batch_size columns, with entry (r,c) = 1 iff r # c and the labels of  *)
(* r and c (mod batch_size) agree, the weight (k,c) is the absolute        *)
(* difference of those labels, and the call returns one scalar.            *)
(***************************************************************************)
C8_PoolAligned ==
    (RankAtLeast3 /\ NViews = 2 /\ LabelsGiven /\ ~MaskGiven /\ ValidMode
        /\ Len(args.labels) = BatchSize) =>
        /\ pc # "raised"
        /\ Bound(env, "contrast_feature") =>
            /\ Rows(env.contrast_feature) = 2 * BatchSize
            /\ \A b \in 1..BatchSize : \A v \in 1..2 :
                env.contrast_feature[(v - 1) * BatchSize + b] = FeatureAt(b, v)
        /\ Bound(env, "weights") =>
            /\ Shape2(env.weights) = <<2 * BatchSize, 2 * BatchSize>>
            /\ \A k, c \in 1..(2 * BatchSize) :
                env.weights[k][c] = Abs(PoolLabel(k) - PoolLabel(c))
        /\ pc \in {"excluded", "logprob", "meaned", "returned"} =>
            /\ Rows(env.mask) = IF self.contrast_mode = "one" THEN BatchSize ELSE 2 * BatchSize
            /\ Cols(env.mask) = 2 * BatchSize
            /\ Shape2(env.logits) = Shape2(env.mask)
            /\ \A r \in 1..Rows(env.mask) : \A c \in 1..Cols(env.mask) :
                env.mask[r][c] = IF r # c /\ PoolLabel(r) = PoolLabel(c) THEN 1 ELSE 0
        /\ pc \in {"meaned", "returned"} =>
            Len(env.mean_log_prob_pos) = Rows(env.mask)
        /\ pc = "returned" => env.loss \in Floats

C8_Witness ==
    /\ RankAtLeast3 /\ NViews = 2 /\ LabelsGiven /\ ~MaskGiven
    /\ self.contrast_mode = "one"
    /\ BatchSize > 1
    /\ Len(args.labels) = BatchSize
    /\ \E i, j \in 1..BatchSize : args.labels[i] # args.labels[j]
    /\ args.features.flat[1] # args.features.flat[2]
    /\ pc = "returned"

(***************************************************************************)
(* C9.  With batch_size labels and a number of views other than 2 the call *)
(* never returns, in either mode: the weight is 2*batch_size square, the   *)
(* excluded exp-logits have n_views*batch_size columns, and the call stops *)
(* in the matrix product of line 84, after the structural checks, the mask *)
(* construction, the projection and the scoring.  (With a mask given as    *)
(* well the call stops before, in the error of C1.)                        *)
(***************************************************************************)
C9_OtherViewCounts ==
    (RankAtLeast3 /\ NViews # 2 /\ LabelsGiven /\ ValidMode
        /\ Len(args.labels) = BatchSize) =>
        /\ pc # "returned"
        /\ Bound(env, "weights") =>
            Shape2(env.weights) = <<2 * BatchSize, 2 * BatchSize>>
        /\ (pc = "raised" /\ MaskGiven) => raised = ErrBoth
        /\ (pc = "raised" /\ ~MaskGiven) =>
            /\ raised = ErrMatMul
            /\ Cols(env.exp_logits) = NViews * BatchSize
            /\ Cols(env.exp_logits) # Rows(env.weights)
            /\ \A op \in {"50:O.equal"} \cup WeightOps \cup PoolOps \cup ScoreOps : Ran(op)
            /\ ~Ran("84:O.matmul")

C9_Witness ==
    /\ RankAtLeast3 /\ NViews = 1 /\ LabelsGiven /\ ~MaskGiven
    /\ self.contrast_mode = "all"
    /\ Len(args.labels) = BatchSize
    /\ pc = "raised" /\ raised = ErrMatMul

(***************************************************************************)
(* C10.  Whenever the division by mask.sum(1) of line 88 is reached, the   *)
(* call has labels and exactly two views, and every row of the tiled,      *)
(* self-excluded mask keeps a positive: the anchor's copy in the other     *)
(* view.  The divisor is never zero.                                       *)
(***************************************************************************)
C10_DivisorPositive ==
    pc \in {"logprob", "meaned", "returned"} =>
        /\ LabelsGiven /\ ~MaskGiven /\ NViews = 2
        /\ \A r \in 1..Rows(env.mask) :
            /\ PositiveCount(env.mask)[r] >= 1
            /\ env.mask[r][((r - 1 + BatchSize) % (2 * BatchSize)) + 1] = 1

C10_Witness ==
    /\ pc = "meaned"
    /\ BatchSize > 1
    /\ \A i, j \in 1..BatchSize : i # j => args.labels[i] # args.labels[j]
    /\ \A r \in 1..Rows(env.mask) : PositiveCount(env.mask)[r] = 1

=============================================================================
